---- MODULE Spec2Model ----
(***************************************************************************)
(* Model of the daily-target planner (src/App.tsx, src/utils/dateUtils.ts).*)
(*                                                                         *)
(* Numbers are exact rationals [n, d] in lowest terms with d > 0; the      *)
(* record with d = 0 is NaN.  IEEE rounding and the infinities are not     *)
(* modelled.  Strings that the code parses or trims are sequences of       *)
(* one-character strings; the empty sequence is the empty string.  A       *)
(* nullable value is a sequence of length 0 (null) or 1.  A Date is the    *)
(* number of its local civil day counted from 1970-01-01 (the time of day  *)
(* plays no part in the code).                                             *)
(***************************************************************************)
EXTENDS Integers, Sequences, FiniteSets, TLC

VARIABLES
    allCalculations,   \* App.tsx:23  ingested figures, a sequence of entries
    selectedBranch,    \* App.tsx:24  "" (<<>>) or a branch name
    manualOverrides,   \* App.tsx:25  branch name -> partial {serviceAsistRevenue, revenueRR}
    isProcessing,      \* App.tsx:26
    error,             \* App.tsx:27  null or a message
    fileName,          \* App.tsx:28  null or the chosen file's name
    defaultBranch,     \* App.tsx:29  null or a branch name
    weekendWeight,     \* App.tsx:32
    filteredResult,    \* App.tsx:56  the memoised result of the last recomputation
    localStorage,      \* the browser's persisted items
    now,               \* the clock read by new Date()
    pending,           \* the paths of the files whose FileReader load is in flight
    callArgs,          \* arguments of the calculation under test (pure-function checks)
    callRet            \* what the last call under test returned

vars == <<allCalculations, selectedBranch, manualOverrides, isProcessing, error,
          fileName, defaultBranch, weekendWeight, filteredResult, localStorage,
          now, pending, callArgs, callRet>>

appVars == <<allCalculations, selectedBranch, manualOverrides, isProcessing, error,
             fileName, defaultBranch, weekendWeight, filteredResult, localStorage,
             pending>>

None == <<>>
Some(x) == <<x>>

(***************************************************************************)
(* Numbers                                                                 *)
(***************************************************************************)
Abs(x) == IF x < 0 THEN -x ELSE x

RECURSIVE GCD(_, _)
GCD(a, b) == IF b = 0 THEN a ELSE GCD(b, a % b)

NaN == [n |-> 0, d |-> 0]
IsNaN(x) == x.d = 0

\* n / d in lowest terms; division by zero has no finite value (NaN here).
Rat(n, d) ==
    IF d = 0 THEN NaN
    ELSE LET g == GCD(Abs(n), Abs(d))
             s == IF d < 0 THEN -1 ELSE 1
         IN [n |-> (s * n) \div g, d |-> (s * d) \div g]

I(k) == [n |-> k, d |-> 1]
Zero == I(0)

RAdd(a, b) == IF IsNaN(a) \/ IsNaN(b) THEN NaN ELSE Rat(a.n * b.d + b.n * a.d, a.d * b.d)
RSub(a, b) == IF IsNaN(a) \/ IsNaN(b) THEN NaN ELSE Rat(a.n * b.d - b.n * a.d, a.d * b.d)
RMul(a, b) == IF IsNaN(a) \/ IsNaN(b) THEN NaN ELSE Rat(a.n * b.n, a.d * b.d)
RDiv(a, b) == IF IsNaN(a) \/ IsNaN(b) THEN NaN ELSE Rat(a.n * b.d, a.d * b.n)
\* a > b; false when either side is NaN, as in JavaScript.
RGt(a, b) == ~IsNaN(a) /\ ~IsNaN(b) /\ a.n * b.d > b.n * a.d
RMin(a, b) == IF IsNaN(a) \/ IsNaN(b) THEN NaN ELSE IF RGt(a, b) THEN b ELSE a

\* Math.round: the nearest integer, halves towards +infinity.
MathRound(x) == IF IsNaN(x) THEN NaN ELSE I((2 * x.n + x.d) \div (2 * x.d))

(***************************************************************************)
(* Dates: the day arithmetic of the JavaScript Date object                 *)
(***************************************************************************)
DaysInYear(y) ==
    IF y % 4 # 0 THEN 365
    ELSE IF y % 100 # 0 THEN 366
    ELSE IF y % 400 # 0 THEN 365
    ELSE 366

DayFromYear(y) ==
    365 * (y - 1970) + ((y - 1969) \div 4) - ((y - 1901) \div 100) + ((y - 1601) \div 400)

\* The year whose days include day t: the estimate from the mean length of a
\* Gregorian year (146097 days in 400 years) is off by at most one.
YearFromTime(t) ==
    LET e == 1970 + ((t * 400) \div 146097)
    IN CHOOSE y \in (e - 1) .. (e + 1) : DayFromYear(y) <= t /\ t < DayFromYear(y + 1)

InLeapYear(t) == IF DaysInYear(YearFromTime(t)) = 366 THEN 1 ELSE 0

DayWithinYear(t) == t - DayFromYear(YearFromTime(t))

\* First day-within-year of month m (0..11), and of the month after December.
MonthStart(m, leap) ==
    CASE m = 0 -> 0
      [] m = 1 -> 31
      [] m = 2 -> 59 + leap
      [] m = 3 -> 90 + leap
      [] m = 4 -> 120 + leap
      [] m = 5 -> 151 + leap
      [] m = 6 -> 181 + leap
      [] m = 7 -> 212 + leap
      [] m = 8 -> 243 + leap
      [] m = 9 -> 273 + leap
      [] m = 10 -> 304 + leap
      [] m = 11 -> 334 + leap
      [] OTHER -> 365 + leap

\* The month that holds day-within-year dwy.
MonthOfDay(dwy, leap) ==
    CHOOSE m \in 0 .. 11 : MonthStart(m, leap) <= dwy /\ dwy < MonthStart(m + 1, leap)

MonthFromTime(t) ==
    LET y == YearFromTime(t)
    IN MonthOfDay(t - DayFromYear(y), IF DaysInYear(y) = 366 THEN 1 ELSE 0)

DateFromTime(t) ==
    LET y == YearFromTime(t)
        leap == IF DaysInYear(y) = 366 THEN 1 ELSE 0
        dwy == t - DayFromYear(y)
    IN dwy - MonthStart(MonthOfDay(dwy, leap), leap) + 1

WeekDay(t) == (t + 4) % 7

\* new Date(year, month, date): month outside 0..11 carries into the year and
\* date outside the month carries into the neighbouring months.
MakeDay(year, month, date) ==
    LET ym == year + (month \div 12)
        mn == month % 12
        leap == IF DaysInYear(ym) = 366 THEN 1 ELSE 0
    IN DayFromYear(ym) + MonthStart(mn, leap) + date - 1

getFullYear(t) == YearFromTime(t)
getMonth(t) == MonthFromTime(t)
getDate(t) == DateFromTime(t)
getDay(t) == WeekDay(t)

(***************************************************************************)
(* Strings and the conversions between strings and numbers                 *)
(***************************************************************************)
DigitChars == <<"0", "1", "2", "3", "4", "5", "6", "7", "8", "9">>
IsDigit(c) == \E k \in 1 .. 10 : DigitChars[k] = c
DigitVal(c) == (CHOOSE k \in 1 .. 10 : DigitChars[k] = c) - 1
IsSpace(c) == c = " "

RECURSIVE TrimStart(_)
TrimStart(s) == IF s # <<>> /\ IsSpace(Head(s)) THEN TrimStart(Tail(s)) ELSE s

RECURSIVE TrimEnd(_)
TrimEnd(s) ==
    IF s # <<>> /\ IsSpace(s[Len(s)]) THEN TrimEnd(SubSeq(s, 1, Len(s) - 1)) ELSE s

\* String.prototype.trim
trim(s) == TrimEnd(TrimStart(s))

\* s.replace(/\s/g, '')
RECURSIVE stripWhitespace(_)
stripWhitespace(s) ==
    IF s = <<>> THEN <<>>
    ELSE IF IsSpace(Head(s)) THEN stripWhitespace(Tail(s))
    ELSE <<Head(s)>> \o stripWhitespace(Tail(s))

\* s.replace(',', '.'): the first comma only
RECURSIVE commaToPoint(_)
commaToPoint(s) ==
    IF s = <<>> THEN <<>>
    ELSE IF Head(s) = "," THEN <<".">> \o Tail(s)
    ELSE <<Head(s)>> \o commaToPoint(Tail(s))

\* The length of the run of digits at the head of s.
RECURSIVE DigitRun(_)
DigitRun(s) == IF s # <<>> /\ IsDigit(Head(s)) THEN 1 + DigitRun(Tail(s)) ELSE 0

\* The value of a sequence of digits read as a decimal numeral.
RECURSIVE DigitsValue(_)
DigitsValue(s) ==
    IF s = <<>> THEN 0 ELSE 10 * DigitsValue(SubSeq(s, 1, Len(s) - 1)) + DigitVal(s[Len(s)])

RECURSIVE Pow10(_)
Pow10(k) == IF k = 0 THEN 1 ELSE 10 * Pow10(k - 1)

Drop(s, k) == SubSeq(s, k + 1, Len(s))

\* parseInt(s): leading white space, a sign, then the longest run of decimal
\* digits; NaN when there is no digit.  (Hexadecimal "0x" numerals are not modelled.)
parseInt(s) ==
    LET t == TrimStart(s)
        neg == t # <<>> /\ Head(t) = "-"
        u == IF t # <<>> /\ Head(t) \in {"-", "+"} THEN Tail(t) ELSE t
        k == DigitRun(u)
    IN IF k = 0 THEN NaN
       ELSE I((IF neg THEN -1 ELSE 1) * DigitsValue(SubSeq(u, 1, k)))

\* parseFloat(s): leading white space, a sign, digits, optionally a point and
\* digits; NaN when there is no digit.  (Exponents and "Infinity" are not modelled.)
parseFloat(s) ==
    LET t == TrimStart(s)
        neg == t # <<>> /\ Head(t) = "-"
        u == IF t # <<>> /\ Head(t) \in {"-", "+"} THEN Tail(t) ELSE t
        k == DigitRun(u)
        afterInt == Drop(u, k)
        hasPoint == afterInt # <<>> /\ Head(afterInt) = "."
        f == IF hasPoint THEN DigitRun(Tail(afterInt)) ELSE 0
        intVal == DigitsValue(SubSeq(u, 1, k))
        fracVal == IF f = 0 THEN 0 ELSE DigitsValue(SubSeq(Tail(afterInt), 1, f))
    IN IF k = 0 /\ f = 0 THEN NaN
       ELSE Rat((IF neg THEN -1 ELSE 1) * (intVal * Pow10(f) + fracVal), Pow10(f))

RECURSIVE IntDigits(_)
IntDigits(k) ==
    IF k < 10 THEN <<DigitChars[k + 1]>> ELSE IntDigits(k \div 10) \o <<DigitChars[(k % 10) + 1]>>

\* The decimal digits of rem / d after the point, at most k of them.
RECURSIVE FracDigits(_, _, _)
FracDigits(rem, d, k) ==
    IF rem = 0 \/ k = 0 THEN <<>>
    ELSE <<DigitChars[((rem * 10) \div d) + 1]>> \o FracDigits((rem * 10) % d, d, k - 1)

\* Number.prototype.toString of a finite number or NaN.
numberToString(x) ==
    IF IsNaN(x) THEN <<"N", "a", "N">>
    ELSE LET a == Abs(x.n)
             frac == FracDigits(a % x.d, x.d, 17)
         IN (IF x.n < 0 THEN <<"-">> ELSE <<>>)
            \o IntDigits(a \div x.d)
            \o (IF frac = <<>> THEN <<>> ELSE <<".">> \o frac)

(***************************************************************************)
(* dateUtils.ts: getRemainingDaysInfo                                      *)
(***************************************************************************)
\* Line 6: new Date(year, month + 1, 0).getDate()
\* (a faulty variant that forgets leap years, and the code)
lastDayOf_NoLeap(year, month) ==
    IF month = 1 THEN 28 ELSE getDate(MakeDay(year, month + 1, 0))
lastDayOf(year, month) == getDate(MakeDay(year, month + 1, 0))

isWeekendDay(dayOfWeek) == dayOfWeek = 0 \/ dayOfWeek = 6

\* The loop of lines 12-20: d runs from currentDay to lastDay inclusive
\* (a faulty variant that stops before lastDay, and the code).
RECURSIVE countDays_Exclusive(_, _, _, _, _)
countDays_Exclusive(d, lastDay, year, month, acc) ==
    IF d < lastDay
    THEN LET dayOfWeek == getDay(MakeDay(year, month, d))
         IN IF isWeekendDay(dayOfWeek)
            THEN countDays_Exclusive(d + 1, lastDay, year, month, [acc EXCEPT !.weekends = @ + 1])
            ELSE countDays_Exclusive(d + 1, lastDay, year, month, [acc EXCEPT !.weekdays = @ + 1])
    ELSE acc

RECURSIVE countDays(_, _, _, _, _)
countDays(d, lastDay, year, month, acc) ==
    IF d <= lastDay
    THEN LET dayOfWeek == getDay(MakeDay(year, month, d))
         IN IF isWeekendDay(dayOfWeek)
            THEN countDays(d + 1, lastDay, year, month, [acc EXCEPT !.weekends = @ + 1])
            ELSE countDays(d + 1, lastDay, year, month, [acc EXCEPT !.weekdays = @ + 1])
    ELSE acc

\* Line 22 (a faulty variant that knows only Sunday, and the code)
isTodayWeekendOf_SundayOnly(date) == getDay(date) = 0
isTodayWeekendOf(date) == getDay(date) = 0 \/ getDay(date) = 6

\* getRemainingDaysInfo() at the moment the clock shows `date`.
remainingDaysInfoAt(date) ==
    LET year == getFullYear(date)
        month == getMonth(date)
        lastDay == lastDayOf(year, month)
        currentDay == getDate(date)
        tally == countDays(currentDay, lastDay, year, month, [weekdays |-> 0, weekends |-> 0])
    IN [total |-> (lastDay - currentDay) + 1,
        weekdays |-> tally.weekdays,
        weekends |-> tally.weekends,
        isTodayWeekend |-> isTodayWeekendOf(date)]

getRemainingDaysInfo == remainingDaysInfoAt(now)

(***************************************************************************)
(* App.tsx: the target calculation (filteredResult, progressStats)         *)
(***************************************************************************)
\* Line 68 (a faulty variant that counts a weekend day as a full day, and the code)
weightedDays_NoWeight(daysInfo, weight) == I(daysInfo.weekdays + daysInfo.weekends)
weightedDays(daysInfo, weight) ==
    RAdd(I(daysInfo.weekdays), RMul(weight, I(daysInfo.weekends)))

remainingTotalRevenue(currentRevenueRR, planAsrServicesRevenue, currentServiceAsist) ==
    RSub(RMul(currentRevenueRR, planAsrServicesRevenue), currentServiceAsist)

\* Lines 68-72 (a faulty variant that hides a negative gap, and the code)
recalculatedFinalValue_Clamped(currentRevenueRR, planAsrServicesRevenue, currentServiceAsist, weight, daysInfo) ==
    LET wd == weightedDays(daysInfo, weight)
        gap == remainingTotalRevenue(currentRevenueRR, planAsrServicesRevenue, currentServiceAsist)
    IN IF RGt(wd, Zero) /\ RGt(gap, Zero) THEN RDiv(gap, wd) ELSE Zero
recalculatedFinalValue(currentRevenueRR, planAsrServicesRevenue, currentServiceAsist, weight, daysInfo) ==
    LET wd == weightedDays(daysInfo, weight)
        gap == remainingTotalRevenue(currentRevenueRR, planAsrServicesRevenue, currentServiceAsist)
    IN IF RGt(wd, Zero) THEN RDiv(gap, wd) ELSE Zero

\* progressStats of a non-null result with these effective figures
\* (a faulty variant that caps the percentage at 100, and the code).
progressOf_Clamped(revenueRR, planAsrServicesRevenue, serviceAsistRevenue) ==
    LET target == RMul(revenueRR, planAsrServicesRevenue)
        percent == IF RGt(target, Zero)
                   THEN RMin(RMul(RDiv(serviceAsistRevenue, target), I(100)), I(100))
                   ELSE Zero
    IN [percent |-> percent, target |-> target]
progressOf(revenueRR, planAsrServicesRevenue, serviceAsistRevenue) ==
    LET target == RMul(revenueRR, planAsrServicesRevenue)
        current == serviceAsistRevenue
        percent == IF RGt(target, Zero) THEN RMul(RDiv(current, target), I(100)) ELSE Zero
    IN [percent |-> percent, target |-> target]

\* Lines 83-89 for a given value of filteredResult.
progressStatsOf(result) ==
    IF result = None THEN [percent |-> Zero, target |-> Zero]
    ELSE progressOf(result[1].revenueRR, result[1].planAsrServicesRevenue,
                    result[1].serviceAsistRevenue)

progressStats == progressStatsOf(filteredResult)

\* Line 500: the fill width of the progress bar, in percent.
barWidth(percent) == RMin(percent, I(100))

(***************************************************************************)
(* App.tsx: override resolution and the memoised result (lines 56-80)      *)
(***************************************************************************)
find(calcs, name) ==
    IF \E i \in 1 .. Len(calcs) : calcs[i].branchName = name
    THEN Some(calcs[CHOOSE i \in 1 .. Len(calcs) :
                       /\ calcs[i].branchName = name
                       /\ \A j \in 1 .. (i - 1) : calcs[j].branchName # name])
    ELSE None

\* branchOverrides?.[field] ?? ingested
\* (a faulty variant that never looks at the overrides, and the code)
resolve_IgnoreOverride(overrides, branch, field, ingested) == ingested
\* (a faulty variant with || in place of ??: an override of 0 is passed over)
resolve_Truthy(overrides, branch, field, ingested) ==
    IF branch \in DOMAIN overrides /\ field \in DOMAIN overrides[branch]
       /\ overrides[branch][field] # I(0)
    THEN overrides[branch][field]
    ELSE ingested
resolve(overrides, branch, field, ingested) ==
    IF branch \in DOMAIN overrides /\ field \in DOMAIN overrides[branch]
    THEN overrides[branch][field]
    ELSE ingested

computeFilteredResult(calcs, branch, overrides, weight) ==
    IF branch = <<>> THEN None
    ELSE IF find(calcs, branch) = None THEN None
    ELSE LET baseData == find(calcs, branch)[1]
             currentServiceAsist ==
                 resolve(overrides, branch, "serviceAsistRevenue", baseData.serviceAsistRevenue)
             currentRevenueRR == resolve(overrides, branch, "revenueRR", baseData.revenueRR)
             daysInfo == getRemainingDaysInfo
         IN Some([baseData EXCEPT
                    !.serviceAsistRevenue = currentServiceAsist,
                    !.revenueRR = currentRevenueRR,
                    !.finalValue = recalculatedFinalValue(currentRevenueRR,
                                       baseData.planAsrServicesRevenue, currentServiceAsist,
                                       weight, daysInfo)])

\* Lines 51-53: the distinct branch names offered by the select.
availableBranches == {allCalculations[i].branchName : i \in 1 .. Len(allCalculations)}

(***************************************************************************)
(* App.tsx: report ingestion (lines 101-185)                               *)
(***************************************************************************)
Num(x) == [k |-> "num", v |-> x]
Str(s) == [k |-> "str", v |-> s]
Undef == [k |-> "undef"]

\* row[idx] with a zero-based index; a missing cell is undefined.
Cell(row, idx) == IF idx + 1 <= Len(row) THEN row[idx + 1] ELSE Undef

\* String(cell).toLowerCase().trim() of the header cells that occur in the
\* modelled workbooks; header cells are atoms, "" stands for an empty cell
\* (the source's 'Pobočka' is written without its diacritic).
lowerTrim(cell) ==
    CASE cell = "BranchName" -> "branchname"
      [] cell = " pobocka " -> "pobocka"
      [] cell = "Pobocka" -> "pobocka"
      [] cell = "Revenue RR" -> "revenue rr"
      [] cell = "REVENUE RR " -> "revenue rr"
      [] cell = "Service Asist Revenue" -> "service asist revenue"
      [] cell = "Plan ASR Services/Revenue" -> "plan asr services/revenue"
      [] OTHER -> cell

\* headerRow.findIndex(...): the first matching column, -1 when there is none.
findColIndex(headerRow, names) ==
    LET hit(i) == headerRow[i] # "" /\ \E nm \in names : lowerTrim(headerRow[i]) = lowerTrim(nm)
    IN IF \E i \in 1 .. Len(headerRow) : hit(i)
       THEN (CHOOSE i \in 1 .. Len(headerRow) : hit(i) /\ \A j \in 1 .. (i - 1) : ~hit(j)) - 1
       ELSE -1

\* row[colIdxBranch]?.toString().trim()
branchValOf(cell) ==
    CASE cell.k = "undef" -> <<>>
      [] cell.k = "num" -> trim(numberToString(cell.v))
      [] OTHER -> trim(cell.v)

parseVal(val) ==
    CASE val.k = "num" -> val.v
      [] val.k = "undef" -> Zero
      [] OTHER ->
           IF val.v = <<>> THEN Zero
           ELSE LET num == parseFloat(commaToPoint(stripWhitespace(val.v)))
                IN IF IsNaN(num) THEN Zero ELSE num

\* The row loop of lines 137-169, from row index i (zero-based) on.
RECURSIVE rowLoop(_, _, _, _)
rowLoop(rows, i, cols, daysInfo) ==
    IF i >= Len(rows) THEN <<>>
    ELSE LET row == rows[i + 1]
             branchVal == branchValOf(Cell(row, cols.branch))
             revRR == MathRound(parseVal(Cell(row, cols.revRR)))
             planAsr == parseVal(Cell(row, cols.planAsr))
             serAsist == MathRound(parseVal(Cell(row, cols.servAsist)))
             rest == rowLoop(rows, i + 1, cols, daysInfo)
         IN IF branchVal = <<>> THEN rest
            ELSE IF revRR = Zero /\ planAsr = Zero THEN rest
            ELSE <<[branchName |-> branchVal,
                    revenueRR |-> revRR,
                    planAsrServicesRevenue |-> planAsr,
                    serviceAsistRevenue |-> serAsist,
                    daysRemaining |-> daysInfo.total,
                    weekdaysRemaining |-> daysInfo.weekdays,
                    weekendsRemaining |-> daysInfo.weekends,
                    isTodayWeekend |-> daysInfo.isTodayWeekend,
                    finalValue |-> Zero,
                    rawRow |-> row]>> \o rest

HeaderRowIndex == 4
MinRows == 5

\* What the body of reader.onload makes of a workbook's rows:
\* "short" (the throw of line 113), "nocols" (the return of line 131) or "ok".
parseRows(rows) ==
    IF Len(rows) < MinRows THEN [outcome |-> "short"]
    ELSE LET headerRow == rows[HeaderRowIndex + 1]
             cols == [branch |-> findColIndex(headerRow, {"BranchName", "Pobocka"}),
                      revRR |-> findColIndex(headerRow, {"Revenue RR"}),
                      servAsist |-> findColIndex(headerRow, {"Service Asist Revenue"}),
                      planAsr |-> findColIndex(headerRow, {"Plan ASR Services/Revenue"})]
         IN IF cols.branch = -1 \/ cols.revRR = -1 \/ cols.servAsist = -1 \/ cols.planAsr = -1
            THEN [outcome |-> "nocols"]
            ELSE [outcome |-> "ok",
                  results |-> rowLoop(rows, HeaderRowIndex + 1, cols, getRemainingDaysInfo)]

(***************************************************************************)
(* The environment: the workbooks the user can choose, the texts typed     *)
(***************************************************************************)
BranchA == <<"A">>
BranchB == <<"B">>
BlankRow == <<>>
Preamble == <<BlankRow, BlankRow, BlankRow, BlankRow>>

StdHeader == <<"BranchName", "Revenue RR", "Service Asist Revenue", "Plan ASR Services/Revenue">>

\* Two branches, a row without a name, string cells with spaces and a decimal
\* comma, and a row whose revenueRR and plan are both 0.
FileA ==
    [path |-> "a",
     name |-> "report.xlsx",
     SheetNames |-> <<"Sheet1">>,
     Sheets |-> [sh \in {"Sheet1"} |->
        Preamble \o
        <<StdHeader,
          <<Str(BranchA), Num(I(10)), Num(I(200)), Num(I(50))>>,
          <<Str(<<" ">>), Num(I(1)), Num(I(1)), Num(I(1))>>,
          <<Str(<<" ", "B", " ">>), Str(<<"1", " ", "0", ",", "5">>), Str(<<"7", ",", "4">>),
            Num(Rat(1, 2))>>,
          <<Str(<<"Z">>), Undef, Num(I(5)), Str(<<"x">>)>>,
          <<Str(<<"Y">>)>> >>]]

\* A "Branch Performance" sheet behind a first sheet, other column order and
\* header spelling, and two rows for branch A.
FileB ==
    [path |-> "b",
     name |-> "report.xlsx",
     SheetNames |-> <<"Summary", "Branch Performance">>,
     Sheets |-> [sh \in {"Summary", "Branch Performance"} |->
        IF sh = "Summary" THEN <<BlankRow, BlankRow>>
        ELSE Preamble \o
             <<<<"", " pobocka ", "REVENUE RR ", "Plan ASR Services/Revenue",
                 "Service Asist Revenue">>,
               <<Undef, Str(BranchA), Num(I(20)), Num(I(50)), Num(I(100))>>,
               <<Undef, Str(<<"A", " ">>), Num(I(5)), Num(I(1)), Num(I(7))>> >>]]

FileShort ==
    [path |-> "short",
     name |-> "other.xlsx",
     SheetNames |-> <<"Sheet1">>,
     Sheets |-> [sh \in {"Sheet1"} |-> Preamble]]

FileNoCols ==
    [path |-> "nocols",
     name |-> "other.xlsx",
     SheetNames |-> <<"Sheet1">>,
     Sheets |-> [sh \in {"Sheet1"} |->
        Preamble \o
        <<<<"BranchName", "Service Asist Revenue", "Plan ASR Services/Revenue">>,
          <<Str(BranchA), Num(I(200)), Num(I(50))>> >>]]

Files == {FileA, FileB, FileShort, FileNoCols}
FileAt(path) == CHOOSE f \in Files : f.path = path

\* Texts typed into an editable value row, and into the weight input.
OverrideTexts == {<<" ", "0", ",", "0">>, <<"x">>}
WeightTexts == {<<>>, <<"1", "5", "0">>}
Fields == {"serviceAsistRevenue", "revenueRR"}

MaxPending == 2
MaxTicks == 1
\* 2024-03-29, a Friday: the 30th and 31st are a Saturday and a Sunday.
StartDay == MakeDay(2024, 2, 29)

(***************************************************************************)
(* App.tsx: state and handlers                                             *)
(***************************************************************************)
getItem(ls, key) == IF key \in DOMAIN ls THEN Some(ls[key]) ELSE None
setItem(ls, key, value) ==
    [k \in (DOMAIN ls) \cup {key} |-> IF k = key THEN value ELSE ls[k]]
Truthy(opt) == opt # None /\ opt[1] # <<>>

DefaultWeight == Rat(6, 10)

\* Lines 32-35: the initial weekend weight.
initialWeekendWeight(ls) ==
    LET saved == getItem(ls, "weekendWeight")
    IN IF Truthy(saved) THEN parseFloat(saved[1]) ELSE DefaultWeight

\* The state after the component is constructed over the persisted items ls
\* and its mount effects have run (lines 23-42).
Mounted(ls) ==
    /\ allCalculations' = <<>>
    /\ selectedBranch' = <<>>
    /\ manualOverrides' = <<>>
    /\ isProcessing' = FALSE
    /\ error' = None
    /\ fileName' = None
    /\ defaultBranch' = getItem(ls, "defaultBranch")
    /\ weekendWeight' = initialWeekendWeight(ls)
    /\ filteredResult' = None
    /\ localStorage' = setItem(ls, "weekendWeight", numberToString(initialWeekendWeight(ls)))
    /\ pending' = {}

InitApp ==
    /\ allCalculations = <<>>
    /\ selectedBranch = <<>>
    /\ manualOverrides = <<>>
    /\ isProcessing = FALSE
    /\ error = None
    /\ fileName = None
    /\ defaultBranch = getItem(<<>>, "defaultBranch")
    /\ weekendWeight = initialWeekendWeight(<<>>)
    /\ filteredResult = None
    /\ localStorage = setItem(<<>>, "weekendWeight", numberToString(initialWeekendWeight(<<>>)))
    /\ pending = {}

\* Lines 91-98 and 186: the synchronous part of processFile.  The file input is
\* rendered only while fileName is null (line 271).
processFile(file) ==
    /\ fileName = None
    /\ Cardinality(pending) < MaxPending
    /\ file.path \notin pending
    /\ isProcessing' = TRUE
    /\ error' = None
    /\ fileName' = Some(file.name)
    /\ allCalculations' = <<>>
    /\ manualOverrides' = <<>>
    /\ selectedBranch' = <<>>
    /\ filteredResult' = computeFilteredResult(<<>>, <<>>, <<>>, weekendWeight)
    /\ pending' = pending \cup {file.path}
    /\ UNCHANGED <<defaultBranch, weekendWeight, localStorage, now, callArgs, callRet>>

\* Lines 106-108: the sheet that is read.
sheetOf(wb) ==
    IF "Branch Performance" \in DOMAIN wb.Sheets
    THEN wb.Sheets["Branch Performance"]
    ELSE wb.Sheets[wb.SheetNames[1]]

\* Lines 101-185: reader.onload for one of the loads in flight.  The outcome
\* "short" is the path of an exception thrown in the try block (lines 102-179):
\* the catch of line 180 shows its message and the finally of line 182 runs.
readerOnload(path) ==
    /\ path \in pending
    /\ pending' = pending \ {path}
    /\ LET parsed == parseRows(sheetOf(FileAt(path)))
           saved == getItem(localStorage, "defaultBranch")
       IN CASE parsed.outcome = "short" ->
                 /\ error' = Some("short")
                 /\ isProcessing' = FALSE
                 /\ UNCHANGED <<allCalculations, selectedBranch, filteredResult>>
            [] parsed.outcome = "nocols" ->
                 /\ error' = Some("nocols")
                 /\ isProcessing' = FALSE
                 /\ UNCHANGED <<allCalculations, selectedBranch, filteredResult>>
            [] OTHER ->
                 /\ allCalculations' = parsed.results
                 /\ selectedBranch' =
                        IF Truthy(saved) /\ \E i \in 1 .. Len(parsed.results) :
                                                parsed.results[i].branchName = saved[1]
                        THEN saved[1]
                        ELSE <<>>
                 /\ isProcessing' = FALSE
                 /\ filteredResult' = computeFilteredResult(allCalculations', selectedBranch',
                                                            manualOverrides, weekendWeight)
                 /\ UNCHANGED error
    /\ UNCHANGED <<manualOverrides, fileName, defaultBranch, weekendWeight, localStorage,
                   now, callArgs, callRet>>

\* Lines 100-186: the read of a file fails (the file was removed or cannot be
\* read).  The FileReader fires its error event; only onload is assigned, so
\* no code of the component runs.
readerOnerror(path) ==
    /\ path \in pending
    /\ pending' = pending \ {path}
    /\ UNCHANGED <<allCalculations, selectedBranch, manualOverrides, isProcessing, error,
                   fileName, defaultBranch, weekendWeight, filteredResult, localStorage,
                   now, callArgs, callRet>>

\* Line 288: the "other file" button, rendered while fileName is set.
clearFileName ==
    /\ fileName # None
    /\ fileName' = None
    /\ UNCHANGED <<allCalculations, selectedBranch, manualOverrides, isProcessing, error,
                   defaultBranch, weekendWeight, filteredResult, localStorage, now, pending,
                   callArgs, callRet>>

\* Lines 307-313: the branch select, rendered while figures are loaded; the
\* memo recomputes when the selection changes.
selectBranch(b) ==
    /\ Len(allCalculations) > 0
    /\ b \in {<<>>} \cup availableBranches
    /\ selectedBranch' = b
    /\ filteredResult' =
           IF b # selectedBranch
           THEN computeFilteredResult(allCalculations, b, manualOverrides, weekendWeight)
           ELSE filteredResult
    /\ UNCHANGED <<allCalculations, manualOverrides, isProcessing, error, fileName,
                   defaultBranch, weekendWeight, localStorage, now, pending, callArgs, callRet>>

\* Lines 204-209, behind the button of line 319.
handleSetDefaultBranch ==
    /\ Len(allCalculations) > 0
    /\ selectedBranch # <<>>
    /\ localStorage' = setItem(localStorage, "defaultBranch", selectedBranch)
    /\ defaultBranch' = Some(selectedBranch)
    /\ UNCHANGED <<allCalculations, selectedBranch, manualOverrides, isProcessing, error,
                   fileName, weekendWeight, filteredResult, now, pending, callArgs, callRet>>

\* Lines 342-345: what the weight input's onChange makes of the typed text.
weightFromInput(text) ==
    LET val == parseInt(text)
    IN IF IsNaN(val) THEN weekendWeight ELSE RDiv(val, I(100))

\* Lines 336-347 with the effect of lines 40-42.
weightOnChange(text) ==
    /\ Len(allCalculations) > 0
    /\ weekendWeight' = weightFromInput(text)
    /\ localStorage' = setItem(localStorage, "weekendWeight", numberToString(weekendWeight'))
    /\ filteredResult' =
           IF weekendWeight' # weekendWeight
           THEN computeFilteredResult(allCalculations, selectedBranch, manualOverrides,
                                      weekendWeight')
           ELSE filteredResult
    /\ UNCHANGED <<allCalculations, selectedBranch, manualOverrides, isProcessing, error,
                   fileName, defaultBranch, now, pending, callArgs, callRet>>

\* Lines 193-202.
\* (a faulty variant that forgets the spread of the previous entry, and the code)
overridesWith_ReplaceEntry(field, newValue) ==
    [b \in (DOMAIN manualOverrides) \cup {selectedBranch} |->
        IF b = selectedBranch THEN [f \in {field} |-> newValue] ELSE manualOverrides[b]]
overridesWith(field, newValue) ==
    [b \in (DOMAIN manualOverrides) \cup {selectedBranch} |->
        IF b = selectedBranch
        THEN LET prev == IF b \in DOMAIN manualOverrides THEN manualOverrides[b] ELSE <<>>
             IN [f \in (DOMAIN prev) \cup {field} |-> IF f = field THEN newValue ELSE prev[f]]
        ELSE manualOverrides[b]]

handleUpdateOverride(field, newValue) ==
    /\ IF selectedBranch = <<>>
       THEN UNCHANGED <<manualOverrides, filteredResult>>
       ELSE /\ manualOverrides' = overridesWith(field, newValue)
            /\ filteredResult' = computeFilteredResult(allCalculations, selectedBranch,
                                                       manualOverrides', weekendWeight)
    /\ UNCHANGED <<allCalculations, selectedBranch, isProcessing, error, fileName,
                   defaultBranch, weekendWeight, localStorage, now, pending, callArgs, callRet>>

\* Lines 533-541: an editable row (rendered with the result, line 387) ends an edit.
handleFinishEdit(field, tempValue) ==
    /\ filteredResult # None
    /\ ~isProcessing
    /\ LET num == parseFloat(commaToPoint(stripWhitespace(tempValue)))
       IN IF ~IsNaN(num) THEN handleUpdateOverride(field, num) ELSE UNCHANGED vars

\* The page is loaded again: a new component over the persisted items; the
\* loads in flight die with the old page.
reload ==
    /\ Mounted(localStorage)
    /\ UNCHANGED <<now, callArgs, callRet>>

\* Midnight passes.
dayPasses ==
    /\ now < StartDay + MaxTicks
    /\ now' = now + 1
    /\ UNCHANGED appVars
    /\ UNCHANGED <<callArgs, callRet>>

Init ==
    /\ InitApp
    /\ now = StartDay
    /\ callArgs = None
    /\ callRet = None

Next ==
    \/ \E file \in Files : processFile(file)
    \/ \E path \in pending : readerOnload(path)
    \/ \E path \in pending : readerOnerror(path)
    \/ clearFileName
    \/ \E b \in {<<>>, BranchA, BranchB} : selectBranch(b)
    \/ handleSetDefaultBranch
    \/ \E text \in WeightTexts : weightOnChange(text)
    \/ \E field \in Fields, text \in OverrideTexts : handleFinishEdit(field, text)
    \/ reload
    \/ dayPasses

Spec == Init /\ [][Next]_vars

\* Every read that was started ends: the FileReader delivers its load or its
\* error event.  Nothing obliges the user to act.
readerDelivers == \E path \in pending : readerOnerror(path) \/ readerOnload(path)

SpecLive == Spec /\ WF_vars(readerDelivers)

(***************************************************************************)
(* The two pure computations on their own: the calendar analysis at every  *)
(* date of the years below, and the target arithmetic over a grid of       *)
(* figures, weights and day counts.                                        *)
(***************************************************************************)
\* A century year that is not a leap year, one that is, a common year, a
\* leap year, and the next century year.
TestYears == {1900, 2000, 2023, 2024, 2100}
TestDays == UNION {DayFromYear(y) .. (DayFromYear(y + 1) - 1) : y \in TestYears}

InitDate ==
    /\ InitApp
    /\ now \in TestDays
    /\ callArgs = None
    /\ callRet = None

\* A caller reads the remaining days of the month (lines 66 and 134 of App.tsx).
callGetRemainingDaysInfo ==
    /\ callRet = None
    /\ callRet' = Some(getRemainingDaysInfo)
    /\ UNCHANGED appVars
    /\ UNCHANGED <<now, callArgs>>

NextDate == callGetRemainingDaysInfo

SpecDate == InitDate /\ [][NextDate]_vars

CalcRevenueRR == {I(0), I(10), I(20)}
CalcPlan == {I(0), I(50), Rat(1, 2)}
CalcServiceAsist == {I(-100), I(200), I(1500)}
CalcWeights == {Rat(-1, 2), I(0), Rat(3, 5), I(1), Rat(3, 2)}
CalcWeekdays == {0, 1, 8}
CalcWeekends == {0, 2, 4}

InitCalc ==
    /\ InitApp
    /\ now = StartDay
    /\ callRet = None
    /\ \E rr \in CalcRevenueRR, plan \in CalcPlan, sa \in CalcServiceAsist,
          w \in CalcWeights, wd \in CalcWeekdays, we \in CalcWeekends :
          callArgs = Some([revenueRR |-> rr, planAsrServicesRevenue |-> plan,
                           serviceAsistRevenue |-> sa, weekendWeight |-> w,
                           daysInfo |-> [weekdays |-> wd, weekends |-> we]])

\* Lines 66-72 and 83-89 (with the bar of line 500) on the figures of callArgs.
callComputeTarget ==
    /\ callRet = None
    /\ LET a == callArgs[1]
           progress == progressOf(a.revenueRR, a.planAsrServicesRevenue, a.serviceAsistRevenue)
       IN callRet' = Some([finalValue |->
                               recalculatedFinalValue(a.revenueRR, a.planAsrServicesRevenue,
                                   a.serviceAsistRevenue, a.weekendWeight, a.daysInfo),
                           percent |-> progress.percent,
                           target |-> progress.target,
                           width |-> barWidth(progress.percent)])
    /\ UNCHANGED appVars
    /\ UNCHANGED <<now, callArgs>>

NextCalc == callComputeTarget

SpecCalc == InitCalc /\ [][NextCalc]_vars

(***************************************************************************)
(* Reference calendar, independent of the Date arithmetic above            *)
(***************************************************************************)
\* The civil date of day number z0 (days since 1970-01-01), by the era /
\* day-of-era decomposition of the proleptic Gregorian calendar.
Civil(z0) ==
    LET z == z0 + 719468
        era == z \div 146097
        doe == z - era * 146097
        yoe == (doe - (doe \div 1460) + (doe \div 36524) - (doe \div 146096)) \div 365
        doy == doe - (365 * yoe + (yoe \div 4) - (yoe \div 100))
        mp == (5 * doy + 2) \div 153
        d == doy - ((153 * mp + 2) \div 5) + 1
        m == IF mp < 10 THEN mp + 3 ELSE mp - 9
    IN [y |-> yoe + era * 400 + (IF m <= 2 THEN 1 ELSE 0), m |-> m, d |-> d]

IsLeapYear(y) == (y % 4 = 0 /\ y % 100 # 0) \/ y % 400 = 0

\* The length of month m (1..12) of year y.
GregorianLength(y, m) ==
    IF m = 2 THEN (IF IsLeapYear(y) THEN 29 ELSE 28)
    ELSE IF m \in {4, 6, 9, 11} THEN 30
    ELSE 31

\* The day of the week of a civil date, 0 = Sunday .. 6 = Saturday.
DayOfWeek(c) ==
    LET t == <<0, 3, 2, 5, 0, 3, 5, 1, 4, 6, 2, 4>>
        y == IF c.m < 3 THEN c.y - 1 ELSE c.y
    IN (y + (y \div 4) - (y \div 100) + (y \div 400) + t[c.m] + c.d) % 7

(***************************************************************************)
(* Claims                                                                  *)
(***************************************************************************)
RLt(a, b) == RGt(b, a)

\* C1: finalValue = (revenueRR * plan - serviceAsistRevenue) / (weekdays +
\* weekendWeight * weekends) when that divisor is > 0 and 0 otherwise (also
\* with no day left); a negative gap over a positive divisor gives a negative
\* finalValue.
C1_FinalValue ==
    callArgs # None /\ callRet # None =>
        LET a == callArgs[1]
            gap == RSub(RMul(a.revenueRR, a.planAsrServicesRevenue), a.serviceAsistRevenue)
            divisor == RAdd(I(a.daysInfo.weekdays), RMul(a.weekendWeight, I(a.daysInfo.weekends)))
            fv == callRet[1].finalValue
        IN /\ ~IsNaN(fv)
           /\ RGt(divisor, Zero) => RMul(fv, divisor) = gap
           /\ ~RGt(divisor, Zero) => fv = Zero
           /\ (RGt(divisor, Zero) /\ RLt(gap, Zero)) => RLt(fv, Zero)

\* The scenario of the specification: 10, 50, 200, 8 weekdays, 4 weekend days,
\* weight 0.6 give 300 / 10.4 = 375/13 (28.846...).
C1_Witness ==
    /\ callArgs = Some([revenueRR |-> I(10), planAsrServicesRevenue |-> I(50),
                        serviceAsistRevenue |-> I(200), weekendWeight |-> Rat(3, 5),
                        daysInfo |-> [weekdays |-> 8, weekends |-> 4]])
    /\ callRet # None
    /\ callRet[1].finalValue = Rat(375, 13)

\* C2: weekdays + weekends = total, and total = (days in the month - day of
\* month) + 1, which is 1 on the last day of a month.
C2_DaysTally ==
    callRet # None =>
        LET r == callRet[1]
            c == Civil(now)
        IN /\ r.weekdays + r.weekends = r.total
           /\ r.total = (GregorianLength(c.y, c.m) - c.d) + 1
           /\ r.weekdays >= 0 /\ r.weekends >= 0
           /\ (c.d = GregorianLength(c.y, c.m)) => r.total = 1

\* The last day of February 2024.
C2_Witness ==
    /\ callRet # None
    /\ Civil(now) = [y |-> 2024, m |-> 2, d |-> 29]
    /\ callRet[1].total = 1
    /\ callRet[1].weekdays = 1

\* C6: percentComplete = serviceAsistRevenue / targetTotal * 100 when
\* targetTotal = revenueRR * plan is > 0 and 0 otherwise, with no clamping;
\* only the width of the progress bar is limited to 100.
C6_PercentComplete ==
    callArgs # None /\ callRet # None =>
        LET a == callArgs[1]
            r == callRet[1]
            targetTotal == RMul(a.revenueRR, a.planAsrServicesRevenue)
        IN /\ r.target = targetTotal
           /\ RGt(targetTotal, Zero) => RMul(r.percent, targetTotal) = RMul(a.serviceAsistRevenue, I(100))
           /\ ~RGt(targetTotal, Zero) => r.percent = Zero
           /\ (RGt(targetTotal, Zero) /\ RLt(a.serviceAsistRevenue, Zero)) => RLt(r.percent, Zero)
           /\ r.width = (IF RGt(r.percent, I(100)) THEN I(100) ELSE r.percent)

\* Target 1000 with 1500 achieved: 150 percent, the bar full.
C6_Witness ==
    /\ callArgs # None /\ callRet # None
    /\ callRet[1].target = I(1000)
    /\ callArgs[1].serviceAsistRevenue = I(1500)
    /\ callRet[1].percent = I(150)
    /\ callRet[1].width = I(100)

\* C8: the month length used is the Gregorian length of the month of the
\* reference date: February has 29 days exactly in leap years, December 31.
C8_MonthLength ==
    LET c == Civil(now)
        used == lastDayOf(getFullYear(now), getMonth(now))
    IN /\ used = GregorianLength(c.y, c.m)
       /\ c.m = 2 => used = (IF (c.y % 4 = 0 /\ c.y % 100 # 0) \/ c.y % 400 = 0 THEN 29 ELSE 28)
       /\ c.m = 12 => used = 31
       /\ callRet # None => callRet[1].total + c.d - 1 = used

\* A February of a century year that is not a leap year, read by a caller.
C8_Witness ==
    /\ callRet # None
    /\ Civil(now) = [y |-> 1900, m |-> 2, d |-> 10]
    /\ callRet[1].total = 19

\* C9: with weight 0 finalValue is the gap over the weekdays alone (0 without
\* weekdays); with weight 1 it is the gap over all remaining days.
C9_WeightBoundaries ==
    callArgs # None /\ callRet # None =>
        LET a == callArgs[1]
            gap == RSub(RMul(a.revenueRR, a.planAsrServicesRevenue), a.serviceAsistRevenue)
            wd == a.daysInfo.weekdays
            all == a.daysInfo.weekdays + a.daysInfo.weekends
            fv == callRet[1].finalValue
        IN /\ a.weekendWeight = I(0) =>
                 fv = (IF wd > 0 THEN Rat(gap.n, gap.d * wd) ELSE Zero)
           /\ a.weekendWeight = I(1) =>
                 fv = (IF all > 0 THEN Rat(gap.n, gap.d * all) ELSE Zero)

\* 10, 50, 200 with 8 weekdays, 4 weekend days and weight 0: 300 / 8 = 37.5.
C9_Witness ==
    /\ callArgs = Some([revenueRR |-> I(10), planAsrServicesRevenue |-> I(50),
                        serviceAsistRevenue |-> I(200), weekendWeight |-> I(0),
                        daysInfo |-> [weekdays |-> 8, weekends |-> 4]])
    /\ callRet # None
    /\ callRet[1].finalValue = Rat(75, 2)

\* C10: isTodayWeekend holds exactly when the reference date is a Saturday or
\* a Sunday, whatever the tallies of the loop.
C10_IsTodayWeekend ==
    callRet # None =>
        (callRet[1].isTodayWeekend <=> DayOfWeek(Civil(now)) \in {0, 6})

\* Saturday 2024-06-01: a weekend day with twenty weekdays still to come.
C10_Witness ==
    /\ callRet # None
    /\ Civil(now) = [y |-> 2024, m |-> 6, d |-> 1]
    /\ callRet[1].isTodayWeekend
    /\ callRet[1].weekdays = 20
    /\ callRet[1].weekends = 10

\* C3: whenever an ingestion completes and installs its figures, the
\* OverrideSet is empty.
C3_OverridesEmptyOnInstall ==
    [][\A path \in pending :
          (readerOnload(path) /\ parseRows(sheetOf(FileAt(path))).outcome = "ok")
              => manualOverrides' = <<>>]_vars

\* The finalValue of the shown figures fr is the one derived from them with
\* the weight `weight` on the day `date`; the progress figures `stats` are the
\* ones derived from fr.
DerivedFrom(fr, weight, date) ==
    LET days == remainingDaysInfoAt(date)
        gap == RSub(RMul(fr.revenueRR, fr.planAsrServicesRevenue), fr.serviceAsistRevenue)
        divisor == RAdd(I(days.weekdays), RMul(weight, I(days.weekends)))
    IN IF RGt(divisor, Zero) THEN RMul(fr.finalValue, divisor) = gap ELSE fr.finalValue = Zero

PercentFrom(fr, stats) ==
    LET targetTotal == RMul(fr.revenueRR, fr.planAsrServicesRevenue)
    IN /\ stats.target = targetTotal
       /\ IF RGt(targetTotal, Zero)
          THEN RMul(stats.percent, targetTotal) = RMul(fr.serviceAsistRevenue, I(100))
          ELSE stats.percent = Zero

\* C4: an override of a figure of the selected branch makes the next
\* recomputation show that figure, with finalValue and percentComplete derived
\* from it, and leaves the ingested figures as they were.  (The first
\* conjuncts hold of every step of handleFinishEdit that changes the state;
\* they only spare the evaluation of the handler on the other steps.)
C4_OverrideApplied ==
    [][(/\ filteredResult # None
        /\ ~isProcessing
        /\ manualOverrides' # manualOverrides \/ filteredResult' # filteredResult
        /\ UNCHANGED <<allCalculations, selectedBranch, isProcessing, weekendWeight, now>>) =>
       \A field \in Fields, text \in OverrideTexts :
          LET num == parseFloat(commaToPoint(stripWhitespace(text)))
          IN (handleFinishEdit(field, text) /\ ~IsNaN(num)) =>
                /\ allCalculations' = allCalculations
                /\ filteredResult' # None
                /\ filteredResult'[1][field] = num
                /\ filteredResult'[1].planAsrServicesRevenue =
                       find(allCalculations, selectedBranch)[1].planAsrServicesRevenue
                /\ DerivedFrom(filteredResult'[1], weekendWeight', now')
                /\ PercentFrom(filteredResult'[1], progressStatsOf(filteredResult'))]_vars

\* Branch A of a.xlsx (10, 50, 200 ingested) shown with serviceAsistRevenue
\* overridden to 0: 0 percent, and the ingested 200 still in place.
C4_Witness ==
    /\ filteredResult # None
    /\ selectedBranch = BranchA
    /\ BranchA \in DOMAIN manualOverrides
    /\ "serviceAsistRevenue" \in DOMAIN manualOverrides[BranchA]
    /\ find(allCalculations, BranchA)[1].serviceAsistRevenue = I(200)
    /\ find(allCalculations, BranchA)[1].revenueRR = I(10)
    /\ filteredResult[1].serviceAsistRevenue = Zero
    /\ filteredResult[1].revenueRR = I(10)
    /\ progressStats.percent = Zero
    /\ progressStats.target = I(500)
    /\ filteredResult[1].finalValue # Zero

\* C5: in every reachable state the weekend weight is a number in [0, 1].
C5_WeightInRange ==
    /\ ~IsNaN(weekendWeight)
    /\ ~RLt(weekendWeight, Zero)
    /\ ~RGt(weekendWeight, I(1))

\* C7: the loaded figures have non-empty, pairwise distinct branch names.
C7_UniqueBranchNames ==
    /\ \A i \in 1 .. Len(allCalculations) : allCalculations[i].branchName # <<>>
    /\ \A i, j \in 1 .. Len(allCalculations) :
          i # j => allCalculations[i].branchName # allCalculations[j].branchName

\* C11: whenever a result is displayed it is not stale: its finalValue and the
\* remaining-days fields it carries are the ones a fresh derivation from the
\* current figures, weight and date would give.
C11_ResultNotStale ==
    (filteredResult # None /\ ~isProcessing) =>
        LET shown == filteredResult[1]
            days == remainingDaysInfoAt(now)
        IN /\ DerivedFrom(shown, weekendWeight, now)
           /\ shown.daysRemaining = days.total
           /\ shown.weekdaysRemaining = days.weekdays
           /\ shown.weekendsRemaining = days.weekends
           /\ shown.isTodayWeekend = days.isTodayWeekend

\* The override entry recorded for a branch: the fields it holds, none when
\* the branch has no entry.
EntryOf(branch) ==
    IF branch \in DOMAIN manualOverrides THEN manualOverrides[branch] ELSE <<>>

\* The first ingested entry that bears the name.
IngestedOf(branch) ==
    allCalculations[CHOOSE i \in 1 .. Len(allCalculations) :
                       /\ allCalculations[i].branchName = branch
                       /\ \A j \in 1 .. Len(allCalculations) :
                             allCalculations[j].branchName = branch => i <= j]

\* C12: for the selected branch, revenueRR and serviceAsistRevenue are each
\* the value of the branch's override entry when the entry holds that field
\* (also when the value is 0) and the ingested value otherwise;
\* planAsrServicesRevenue is always the ingested one; the entries of other
\* branches play no part.
C12_OverrideResolution ==
    filteredResult # None =>
        /\ \E i \in 1 .. Len(allCalculations) : allCalculations[i].branchName = selectedBranch
        /\ \A field \in {"revenueRR", "serviceAsistRevenue"} :
              filteredResult[1][field] =
                  (IF field \in DOMAIN EntryOf(selectedBranch)
                   THEN EntryOf(selectedBranch)[field]
                   ELSE IngestedOf(selectedBranch)[field])
        /\ filteredResult[1].planAsrServicesRevenue =
               IngestedOf(selectedBranch).planAsrServicesRevenue
        /\ filteredResult[1].branchName = selectedBranch

\* Branch B shown with its serviceAsistRevenue overridden to 0 and its
\* ingested revenueRR, while branch A holds an override of revenueRR.
C12_Witness ==
    /\ filteredResult # None
    /\ selectedBranch = BranchB
    /\ DOMAIN EntryOf(BranchB) = {"serviceAsistRevenue"}
    /\ DOMAIN EntryOf(BranchA) = {"revenueRR"}
    /\ IngestedOf(BranchB).serviceAsistRevenue # Zero
    /\ IngestedOf(BranchB).revenueRR # Zero
    /\ filteredResult[1].serviceAsistRevenue = Zero
    /\ filteredResult[1].revenueRR = IngestedOf(BranchB).revenueRR
    /\ filteredResult[1].revenueRR # EntryOf(BranchA).revenueRR

\* The step records `value` for `field` of the selected branch and nothing
\* else: the entry's other field and the other branches' entries stay.
RecordsOnly(field, value) ==
    /\ selectedBranch # <<>>
    /\ DOMAIN manualOverrides' = (DOMAIN manualOverrides) \cup {selectedBranch}
    /\ \A b \in (DOMAIN manualOverrides) \ {selectedBranch} :
          manualOverrides'[b] = manualOverrides[b]
    /\ DOMAIN manualOverrides'[selectedBranch] = (DOMAIN EntryOf(selectedBranch)) \cup {field}
    /\ manualOverrides'[selectedBranch][field] = value
    /\ \A f \in (DOMAIN EntryOf(selectedBranch)) \ {field} :
          manualOverrides'[selectedBranch][f] = EntryOf(selectedBranch)[f]

\* C13: between ingestions the OverrideSet only grows or is updated in place.
\* A change of the selection or of the weight leaves it unchanged; an edit
\* records one field of the selected branch's entry and leaves the entry's
\* other field and the other entries unchanged (and nothing changes with no
\* branch selected); the only steps that shrink it start an ingestion or a
\* new session.
C13_OverridesFrame ==
    [][/\ (\E b \in {<<>>, BranchA, BranchB} : selectBranch(b)) =>
              manualOverrides' = manualOverrides
       /\ weekendWeight' # weekendWeight => manualOverrides' = manualOverrides
       /\ manualOverrides' # manualOverrides =>
              \/ \E file \in Files : processFile(file)
              \/ reload
              \/ \E field \in Fields, text \in OverrideTexts :
                    /\ handleFinishEdit(field, text)
                    /\ RecordsOnly(field, parseFloat(commaToPoint(stripWhitespace(text))))
       /\ \A field \in Fields :
             (selectedBranch = <<>> /\ handleUpdateOverride(field, Zero)) =>
                 manualOverrides' = manualOverrides]_vars

\* Branch A selected with both of its figures overridden one after the other,
\* and an earlier override of branch B still recorded.
C13_Witness ==
    /\ selectedBranch = BranchA
    /\ DOMAIN EntryOf(BranchA) = {"revenueRR", "serviceAsistRevenue"}
    /\ DOMAIN EntryOf(BranchB) = {"revenueRR"}
    /\ filteredResult # None

\* The selection names an entry of the loaded figures, or is empty; a result
\* is displayed exactly when it is not empty.
SelectionLoaded ==
    /\ selectedBranch = <<>>
       \/ \E i \in 1 .. Len(allCalculations) : allCalculations[i].branchName = selectedBranch
    /\ (filteredResult # None /\ ~isProcessing) <=> selectedBranch # <<>>

\* C14: in every reachable state the selection is empty or names an entry of
\* the loaded figures (a result is displayed exactly when it is not empty);
\* a successful ingestion selects the saved default branch when the new
\* figures hold it and nothing otherwise; a failed ingestion (too-short file,
\* missing columns) of the file last chosen, whose name is shown, leaves no
\* figures and no selection.
C14_SelectionConsistent ==
    /\ []SelectionLoaded
    /\ [][\A path \in pending :
             readerOnload(path) =>
                 IF parseRows(sheetOf(FileAt(path))).outcome = "ok"
                 THEN LET saved == getItem(localStorage, "defaultBranch")
                      IN selectedBranch' =
                             (IF /\ saved # None
                                 /\ \E i \in 1 .. Len(allCalculations') :
                                       allCalculations'[i].branchName = saved[1]
                              THEN saved[1]
                              ELSE <<>>)
                 ELSE fileName = Some(FileAt(path).name) =>
                          (allCalculations' = <<>> /\ selectedBranch' = <<>>)]_vars

\* Figures are loaded while the read of the file last chosen, whose name is
\* shown, is still in flight; no file of that name yields figures, so the
\* figures are those of a file chosen before it.
LaterReadPending ==
    /\ Len(allCalculations) > 0
    /\ \E path \in pending :
          /\ fileName = Some(FileAt(path).name)
          /\ \A f \in Files :
                f.name = FileAt(path).name => parseRows(sheetOf(f)).outcome # "ok"

\* C15: every call of processFile (which sets isProcessing) is eventually
\* followed by a state in which isProcessing is false, whatever becomes of the
\* read; and isProcessing is never false while an ingestion started later
\* than the displayed figures is still pending.
C15_ProcessingEnds ==
    /\ isProcessing ~> ~isProcessing
    /\ [](~isProcessing => ~LaterReadPending)

====
